---- MODULE Spec2Model ----
(***************************************************************************)
(* Model of the as_with_bytes crate (src/src/lib.rs): zero-copy views of   *)
(* Copy values and slices of Copy values as bytes, and back.               *)
(*                                                                         *)
(* Memory is one flat array of bytes.  A type is represented by its        *)
(* size_of; a value of a type of size s is the s bytes it occupies.  A     *)
(* reference is an address plus the size of its referent; a slice is an    *)
(* address, an element size and an element count.                          *)
(***************************************************************************)
EXTENDS Integers, Sequences, FiniteSets, TLC

\* ---- bounds ----
MemSize == 7          \* bytes of addressable memory
MaxByte == 1          \* a byte holds 0..MaxByte
MaxSize == 3          \* size_of of the types tried is 0..MaxSize
MaxLen  == 3          \* longest slice bound by a let

Addr  == 0..(MemSize - 1)
Byte  == 0..MaxByte
Sizes == 0..MaxSize

VARIABLES mem, val, bytes, out, got
vars == <<mem, val, bytes, out, got>>

\* ---- data ----
NoVal   == [kind |-> "none", ptr |-> 0, size |-> 0, len |-> 0, v |-> <<>>]
NoBytes == [kind |-> "none", ptr |-> 0, len |-> 0]
NoRes   == [tag |-> "none"]
NoOut   == [op |-> "none", tsize |-> 0, res |-> NoRes]
NoGot   == [tag |-> "none", v |-> <<>>]
Fault   == [tag |-> "fault", v |-> <<>>]

\* slice::from_raw_parts::<u8>(p, n)
ByteSlice(p, n) == [kind |-> "bytes", ptr |-> p, len |-> n]
\* slice::from_raw_parts::<T>(p, n), T of size s
from_raw_parts(p, s, n) == [tag |-> "slice", ptr |-> p, size |-> s, len |-> n]
\* mem::transmute::<_, &T>(p), T of size s
transmute_ref(p, s) == [tag |-> "ref", ptr |-> p, size |-> s, len |-> 1]
\* a panic unwinding out of the call
Panic == [tag |-> "panic"]
\* Option
None    == [some |-> FALSE]
Some(x) == [some |-> TRUE, val |-> x]

\* ---- the six conversions ----

\* bug: the bytes are those of a copy placed elsewhere
as_bytes_copied(self) == ByteSlice((self.ptr + 1) % MemSize, self.size)
\* bug: one byte short
as_bytes_short(self) ==
    ByteSlice(self.ptr, IF self.size > 0 THEN self.size - 1 ELSE 0)

\* impl AsBytes for T
as_bytes(self) == ByteSlice(self.ptr, self.size)

\* bug: the reference is one byte off
with_bytes_offset(T, b) == transmute_ref(b.ptr + 1, T)

\* impl WithBytes for T; T is size_of::<T>()
with_bytes(T, b) == transmute_ref(b.ptr, T)

\* bug: <= for <
try_with_bytes_le(T, b) ==
    IF b.len <= T THEN None ELSE Some(with_bytes(T, b))
\* bug: zero-width types rejected
try_with_bytes_nozst(T, b) ==
    IF T = 0 \/ b.len < T THEN None ELSE Some(with_bytes(T, b))

\* impl TryWithBytes for T
try_with_bytes(T, b) ==
    IF b.len < T THEN None ELSE Some(with_bytes(T, b))

\* bug: element count taken for byte count
slice_as_bytes_count(self) == ByteSlice(self.ptr, self.len)

\* impl AsBytes for [T]
slice_as_bytes(self) == ByteSlice(self.ptr, self.len * self.size)

\* bug: the count rounds up
slice_with_bytes_ceil(T, b) ==
    IF T = 0 THEN Panic ELSE from_raw_parts(b.ptr, T, (b.len + T - 1) \div T)
\* bug: the byte length taken for the count
slice_with_bytes_nodiv(T, b) ==
    IF T = 0 THEN Panic ELSE from_raw_parts(b.ptr, T, b.len)
\* bug: a zero-sized element guarded by an empty slice
slice_with_bytes_nopanic(T, b) ==
    IF T = 0 THEN from_raw_parts(b.ptr, T, 0)
    ELSE from_raw_parts(b.ptr, T, b.len \div T)

\* impl WithBytes for [T]; usize division by zero panics
slice_with_bytes(T, b) ==
    IF T = 0 THEN Panic ELSE from_raw_parts(b.ptr, T, b.len \div T)

\* bug: a buffer shorter than one element rejected
slice_try_with_bytes_short(T, b) ==
    IF T > 0 /\ b.len >= T THEN Some(slice_with_bytes(T, b)) ELSE None

\* impl TryWithBytes for [T]
slice_try_with_bytes(T, b) ==
    IF T > 0 THEN Some(slice_with_bytes(T, b)) ELSE None

\* ---- memory ----

\* the n bytes at address p
Read(m, p, n) == [i \in 1..n |-> m[p + i - 1]]
\* m with the byte sequence bs stored at address p
Store(m, p, bs) ==
    [a \in Addr |-> IF a >= p /\ a < p + Len(bs) THEN bs[a - p + 1] ELSE m[a]]
\* the concatenated bytes of a sequence of n elements of s bytes each
Flatten(es, s, n) ==
    [i \in 1..(n * s) |-> es[((i - 1) \div s) + 1][((i - 1) % s) + 1]]
\* the n elements of s bytes each at address p
ReadElems(m, p, s, n) == [k \in 1..n |-> Read(m, p + (k - 1) * s, s)]

\* the reference or slice carried by a result, if any
HasView(r) ==
    \/ r.tag \in {"ref", "slice"}
View(o) == IF o.op \in {"try_with_bytes", "slice_try_with_bytes"}
           THEN (IF o.res.some THEN o.res.val ELSE NoRes)
           ELSE o.res
\* bytes covered by a view
Extent(w) == w.len * w.size

\* memory before anything is bound in it
Blank == [a \in Addr |-> 0]

Init ==
    /\ mem = Blank
    /\ val = NoVal
    /\ bytes = NoBytes
    /\ out = NoOut
    /\ got = NoGot

\* A binding is made in blank memory, when nothing else is bound.
Unbound == val.kind = "none" /\ bytes.kind = "none"

\* let x: T = v;  (T of size s, placed at address a)
LetValue ==
    \E s \in Sizes : \E a \in Addr :
      /\ Unbound
      /\ a + s <= MemSize
      /\ \E v \in [1..s -> Byte] :
        /\ mem' = Store(Blank, a, v)
        /\ val' = [kind |-> "scalar", ptr |-> a, size |-> s, len |-> 1, v |-> v]
        /\ bytes' = NoBytes
        /\ out' = NoOut
        /\ got' = NoGot

\* let xs: &[T] = &[...];  (n elements of size s, placed at address a)
LetSlice ==
    \E s \in Sizes : \E n \in 0..MaxLen : \E a \in Addr :
      /\ Unbound
      /\ a + n * s <= MemSize
      /\ \E v \in [1..n -> [1..s -> Byte]] :
        /\ mem' = Store(Blank, a, Flatten(v, s, n))
        /\ val' = [kind |-> "slice", ptr |-> a, size |-> s, len |-> n, v |-> v]
        /\ bytes' = NoBytes
        /\ out' = NoOut
        /\ got' = NoGot

\* let b: &[u8] = &[...];  (l bytes at address a)
LetBytes ==
    \E a \in Addr : \E l \in 0..MemSize :
      /\ Unbound
      /\ a + l <= MemSize
      /\ \E c \in [1..l -> Byte] :
        /\ mem' = Store(Blank, a, c)
        /\ val' = NoVal
        /\ bytes' = ByteSlice(a, l)
        /\ out' = NoOut
        /\ got' = NoGot

\* x.as_bytes()
AsBytes ==
    /\ val.kind = "scalar"
    /\ bytes.kind = "none"
    /\ bytes' = as_bytes(val)
    /\ UNCHANGED <<mem, val, out, got>>

\* xs.as_bytes()
SliceAsBytes ==
    /\ val.kind = "slice"
    /\ bytes.kind = "none"
    /\ bytes' = slice_as_bytes(val)
    /\ UNCHANGED <<mem, val, out, got>>

\* T::with_bytes(b)
WithBytes ==
    \E T \in Sizes :
        /\ bytes.kind = "bytes"
        /\ out' = [op |-> "with_bytes", tsize |-> T, res |-> with_bytes(T, bytes)]
        /\ got' = NoGot
        /\ UNCHANGED <<mem, val, bytes>>

\* T::try_with_bytes(b)
TryWithBytes ==
    \E T \in Sizes :
        /\ bytes.kind = "bytes"
        /\ out' = [op |-> "try_with_bytes", tsize |-> T,
                   res |-> try_with_bytes(T, bytes)]
        /\ got' = NoGot
        /\ UNCHANGED <<mem, val, bytes>>

\* <[T]>::with_bytes(b)
SliceWithBytes ==
    \E T \in Sizes :
        /\ bytes.kind = "bytes"
        /\ out' = [op |-> "slice_with_bytes", tsize |-> T,
                   res |-> slice_with_bytes(T, bytes)]
        /\ got' = NoGot
        /\ UNCHANGED <<mem, val, bytes>>

\* <[T]>::try_with_bytes(b)
SliceTryWithBytes ==
    \E T \in Sizes :
        /\ bytes.kind = "bytes"
        /\ out' = [op |-> "slice_try_with_bytes", tsize |-> T,
                   res |-> slice_try_with_bytes(T, bytes)]
        /\ got' = NoGot
        /\ UNCHANGED <<mem, val, bytes>>

\* reading through the returned view.  A view that stays inside the borrowed
\* bytes reads them; one that reaches past them reads arbitrary memory or
\* faults.
Deref ==
    /\ out.op # "none"
    /\ got.tag = "none"
    /\ HasView(View(out))
    /\ LET w == View(out) IN
        IF w.ptr + Extent(w) <= bytes.ptr + bytes.len
        THEN got' = [tag |-> "value",
                     v |-> IF w.tag = "ref" THEN Read(mem, w.ptr, w.size)
                           ELSE ReadElems(mem, w.ptr, w.size, w.len)]
        ELSE \/ got' = Fault
             \/ \E x \in [1..w.size -> Byte] : got' = [tag |-> "value", v |-> x]
    /\ UNCHANGED <<mem, val, bytes, out>>

\* the end of the scope: the value or buffer and every view of it are gone
EndScope ==
    /\ ~Unbound
    /\ mem' = Blank
    /\ val' = NoVal
    /\ bytes' = NoBytes
    /\ out' = NoOut
    /\ got' = NoGot

Next ==
    \/ LetValue
    \/ LetSlice
    \/ LetBytes
    \/ AsBytes
    \/ SliceAsBytes
    \/ WithBytes
    \/ TryWithBytes
    \/ SliceWithBytes
    \/ SliceTryWithBytes
    \/ Deref
    \/ EndScope

Spec == Init /\ [][Next]_vars


\* ---- helpers for the properties ----

\* the bytes handed to the decoder are those of the let-bound value
FromValue(k) == val.kind = k /\ bytes.kind = "bytes"
\* a read through the returned view has happened
Got == got.tag # "none"
Value(x) == [tag |-> "value", v |-> x]
\* w lies inside the borrowed bytes and starts where they start
Within(w) ==
    /\ w.ptr = bytes.ptr
    /\ w.ptr + Extent(w) <= bytes.ptr + bytes.len

\* C1: scalar round trip: with_bytes::<T>(as_bytes(v)) dereferences to a
\* value equal to v, for every size of T and every v.
C1_RoundTrip ==
    (FromValue("scalar") /\ out.op = "with_bytes" /\ out.tsize = val.size /\ Got)
        => got = Value(val.v)
C1_Witness ==
    /\ FromValue("scalar") /\ out.op = "with_bytes" /\ out.tsize = val.size
    /\ val.size = 2 /\ val.v = <<0, 1>> /\ got = Value(<<0, 1>>)

\* C2: try_with_bytes::<T>(b) is present iff len(b) >= size_of(T); when
\* present it is the reference with_bytes::<T>(b) returns: b's address,
\* referent of size_of(T) bytes, reading b's first size_of(T) bytes.
C2_CheckedScalar ==
    out.op = "try_with_bytes" =>
        /\ out.res.some <=> bytes.len >= out.tsize
        /\ out.res.some =>
            /\ out.res.val = with_bytes(out.tsize, bytes)
            /\ out.res.val.tag = "ref"
            /\ out.res.val.ptr = bytes.ptr
            /\ out.res.val.size = out.tsize
            /\ Got => got = Value(Read(mem, bytes.ptr, out.tsize))
C2_Witness ==
    /\ out.op = "try_with_bytes" /\ out.tsize = 2 /\ bytes.len = 2
    /\ out.res.some /\ got = Value(<<1, 1>>)

\* C3 as stated: try_with_bytes::<T>(b) with size_of(T) = 0 is absent for
\* every buffer b.
C3_ZeroWidthAbsent ==
    (out.op = "try_with_bytes" /\ out.tsize = 0) => ~out.res.some

\* C3 amended: try_with_bytes::<T>(b) with size_of(T) = 0 is present for
\* every buffer b, of any length including 0, and refers to b's address.
C3_ZeroWidthPresent ==
    (out.op = "try_with_bytes" /\ out.tsize = 0) =>
        /\ out.res.some
        /\ out.res.val = transmute_ref(bytes.ptr, 0)
C3_Witness ==
    /\ out.op = "try_with_bytes" /\ out.tsize = 0 /\ bytes.len = 0
    /\ out.res.some

\* C4: sequence truncation: for size_of(T) > 0, <[T]>::with_bytes(b) is a
\* slice of exactly floor(len(b) / size_of(T)) elements at b's address; the
\* trailing len(b) mod size_of(T) bytes are left out and nothing fails.
C4_Truncation ==
    (out.op = "slice_with_bytes" /\ out.tsize > 0) =>
        /\ out.res.tag = "slice"
        /\ out.res.ptr = bytes.ptr
        /\ out.res.size = out.tsize
        /\ out.res.len * out.tsize <= bytes.len
        /\ bytes.len < (out.res.len + 1) * out.tsize
        /\ bytes.len - Extent(out.res) = bytes.len % out.tsize
        /\ got # Fault
C4_Witness ==
    /\ out.op = "slice_with_bytes" /\ out.tsize = 2 /\ bytes.len = 7
    /\ out.res.tag = "slice" /\ out.res.len = 3
    /\ Got

\* C5: <[T]>::try_with_bytes(b) is absent iff size_of(T) = 0, for every b
\* including the empty one; for size_of(T) > 0 it is present and equal to
\* <[T]>::with_bytes(b), the empty slice when len(b) < size_of(T).
C5_CheckedSlice ==
    out.op = "slice_try_with_bytes" =>
        /\ ~out.res.some <=> out.tsize = 0
        /\ out.tsize > 0 =>
            /\ out.res.some
            /\ out.res.val = slice_with_bytes(out.tsize, bytes)
            /\ out.res.val.tag = "slice"
            /\ out.res.val.ptr = bytes.ptr
            /\ bytes.len < out.tsize => out.res.val.len = 0
C5_Witness ==
    /\ out.op = "slice_try_with_bytes" /\ out.tsize = 0 /\ bytes.len = 0
    /\ ~out.res.some

\* C6: identity: as_bytes(v) starts at v's address and
\* with_bytes::<T>(as_bytes(v)) is a reference to v's address.
C6_Identity ==
    /\ FromValue("scalar") => bytes.ptr = val.ptr
    /\ (FromValue("scalar") /\ out.op = "with_bytes" /\ out.tsize = val.size) =>
        /\ out.res.tag = "ref"
        /\ out.res.ptr = val.ptr
C6_Witness ==
    /\ FromValue("scalar") /\ out.op = "with_bytes" /\ out.tsize = val.size
    /\ val.ptr = 2 /\ val.size = 2 /\ out.res.ptr = 2

\* C7: whenever try_with_bytes, scalar or slice form, is present, the bytes
\* its view covers start at b's address and lie within b's len(b) bytes, and
\* a read through it never leaves b.
C7_NoOutOfBounds ==
    (out.op \in {"try_with_bytes", "slice_try_with_bytes"} /\ out.res.some) =>
        /\ Within(out.res.val)
        /\ Extent(out.res.val) =
             (IF out.op = "try_with_bytes" THEN out.tsize
              ELSE out.res.val.len * out.tsize)
        /\ got # Fault
        /\ Got => got.v = (IF out.op = "try_with_bytes"
                           THEN Read(mem, bytes.ptr, out.tsize)
                           ELSE ReadElems(mem, bytes.ptr, out.tsize, out.res.val.len))
C7_Witness ==
    /\ out.op = "slice_try_with_bytes" /\ out.res.some
    /\ out.tsize = 2 /\ bytes.len = 3 /\ bytes.ptr = 1
    /\ Got

\* C8: as_bytes of a value of T is exactly size_of(T) bytes at the value's
\* address; as_bytes of a slice of n elements is exactly n * size_of(T) bytes
\* at its first element; it is a byte view for every T, zero-width included.
C8_AsBytesShape ==
    /\ FromValue("scalar") => bytes = ByteSlice(val.ptr, val.size)
    /\ FromValue("slice") => bytes = ByteSlice(val.ptr, val.len * val.size)
    /\ (val.kind # "none" /\ val.size = 0 /\ bytes.kind = "bytes") => bytes.len = 0
C8_Witness ==
    /\ FromValue("slice") /\ val.len = 2 /\ val.size = 2 /\ bytes.len = 4

\* C9: <[T]>::with_bytes(b) with size_of(T) = 0 panics for every buffer b
\* rather than returning a slice.
C9_ZeroSizedPanics ==
    (out.op = "slice_with_bytes" /\ out.tsize = 0) => out.res = Panic
C9_Witness ==
    /\ out.op = "slice_with_bytes" /\ out.tsize = 0 /\ bytes.len = 1
    /\ out.res = Panic

\* C10: sequence round trip: for size_of(T) > 0 and a slice s of n elements
\* (n = 0 included), <[T]>::with_bytes(as_bytes(s)) has n elements, starts at
\* s's address and equals s element for element; <[T]>::try_with_bytes
\* is present with the same result.
C10_SliceRoundTrip ==
    (FromValue("slice") /\ val.size > 0 /\ out.tsize = val.size
       /\ out.op \in {"slice_with_bytes", "slice_try_with_bytes"}) =>
        /\ out.op = "slice_try_with_bytes" => out.res.some
        /\ View(out) = from_raw_parts(val.ptr, val.size, val.len)
        /\ Got => got = Value(val.v)
C10_Witness ==
    /\ FromValue("slice") /\ val.size = 2 /\ val.len = 2
    /\ out.op = "slice_with_bytes" /\ out.tsize = 2
    /\ val.v = <<(<<1, 0>>), (<<0, 1>>)>> /\ got = Value(val.v)
C10_WitnessEmpty ==
    /\ FromValue("slice") /\ val.size = 2 /\ val.len = 0
    /\ out.op = "slice_try_with_bytes" /\ out.tsize = 2 /\ Got

====
